---- MODULE Spec2Model ----
(***************************************************************************)
(* Model of src/index.tsx: the CSV tokenizer (parseCSV), the smart-answer  *)
(* resolver (processSmartAnswer), the emitter (generateCSV) and the state  *)
(* of the ExamFactory component with its handlers and asynchronous         *)
(* completions (file read, configuration import, suggestion request).      *)
(*                                                                         *)
(* A JavaScript string is a sequence of UTF-16 code units (naturals).      *)
(* Values of TypeScript type `number | string` and values coming out of    *)
(* JSON.parse are tagged records: Num(n), Str(s), Null, Undefined, Arr(s). *)
(* A JavaScript object is a record without the tag field "js".  The closed *)
(* string enumerations (type, outputMode) and the opaque ids are TLA+      *)
(* strings.                                                                *)
(***************************************************************************)
EXTENDS Integers, Sequences, FiniteSets, TLC

VARIABLES
    file,               \* useState<File | null>                (line 97)
    fileBuffer,         \* useState<ArrayBuffer | null>         (line 98)
    encoding,           \* useState<'utf-8' | 'big5'>           (line 99)
    originalData,       \* useState<string[][]>                 (line 100)
    exportConfig,       \* useState<ExportField[]>              (line 101)
    isSuggesting,       \* useState(false)                      (line 102)
    draggedItemIndex,   \* useState<number | null>              (line 103)
    fileReads,          \* FileReader.readAsArrayBuffer calls in flight (line 252)
    importReads,        \* FileReader.readAsText calls in flight        (line 196)
    inFlight,           \* autoSuggest calls awaiting generateContent   (line 122)
    rendered,           \* the cells as of the last render: the values its
                        \* handlers and its effect close over
    bufferQueued,       \* setFileBuffer was called since the last render
    effectPending,      \* the last render has an effect of lines 107-116 to
                        \* run (fileBuffer changed) that has not run yet
    dragSource,         \* the card the browser is dragging: its key, Detached when
                        \* its element left the page, Null when no drag is going on
    steps,              \* number of handler and completion steps taken
    pc,                 \* which harness runs: "ui", "call" or "done"
    arg,                \* argument of a pure-function call
    ret                 \* its result

vars == <<file, fileBuffer, encoding, originalData, exportConfig, isSuggesting,
          draggedItemIndex, fileReads, importReads, inFlight, rendered,
          bufferQueued, effectPending, dragSource, steps, pc, arg, ret>>

uiVars == <<file, fileBuffer, encoding, originalData, exportConfig, isSuggesting,
            draggedItemIndex, fileReads, importReads, inFlight, rendered,
            bufferQueued, effectPending, dragSource, steps>>

(***************************************************************************)
(* JavaScript values                                                       *)
(***************************************************************************)
Undefined == [js |-> "undefined"]
Null == [js |-> "null"]
Num(n) == [js |-> "num", n |-> n]
Str(s) == [js |-> "str", s |-> s]
Arr(items) == [js |-> "array", items |-> items]
NaN == [nan |-> TRUE, n |-> 0]
Finite(n) == [nan |-> FALSE, n |-> n]

IsObject(v) == "js" \notin DOMAIN v
IsArray(v) == ~IsObject(v) /\ v.js = "array"
IsNullish(v) == ~IsObject(v) /\ v.js \in {"null", "undefined"}

\* obj[key] of JavaScript: undefined when the object has no such property.
Prop(obj, key) == IF IsObject(obj) /\ key \in DOMAIN obj THEN obj[key] ELSE Undefined

\* Code units the source names.
chDQuote == 34
chComma == 44
chLF == 10
chCR == 13
FullWidthOffset == 65248

\* WhiteSpace and LineTerminator of ECMAScript, the code units String.prototype.trim strips.
IsWhiteSpace(c) ==
    \/ c \in 9..13
    \/ c \in {32, 160, 5760, 8232, 8233, 8239, 8287, 12288, 65279}
    \/ c \in 8192..8202

RECURSIVE TrimStart(_)
TrimStart(s) == IF s # <<>> /\ IsWhiteSpace(Head(s)) THEN TrimStart(Tail(s)) ELSE s

RECURSIVE TrimEnd(_)
TrimEnd(s) ==
    IF s # <<>> /\ IsWhiteSpace(s[Len(s)]) THEN TrimEnd(SubSeq(s, 1, Len(s) - 1)) ELSE s

\* String.prototype.trim
Trim(s) == TrimEnd(TrimStart(s))

\* String.prototype.toUpperCase on one code unit, for Basic Latin and the
\* full-width Latin letters (the other code units the model uses have no upper case).
UpperUnit(c) ==
    IF c \in 97..122 THEN c - 32
    ELSE IF c \in 65345..65370 THEN c - 32
    ELSE c

ToUpperCase(s) == [i \in 1..Len(s) |-> UpperUnit(s[i])]

IsDigit(c) == c \in 48..57

RECURSIVE DigitsValue(_)
DigitsValue(s) ==
    IF s = <<>> THEN 0 ELSE 10 * DigitsValue(SubSeq(s, 1, Len(s) - 1)) + (s[Len(s)] - 48)

\* Number(v) for the values a descriptor holds: a number is itself; a string is
\* trimmed, '' is 0, a run of decimal digits is its value, anything else NaN.
ToNumber(v) ==
    IF v.js = "num" THEN Finite(v.n)
    ELSE IF v.js = "str" THEN
        LET t == Trim(v.s)
        IN IF \A i \in 1..Len(t) : IsDigit(t[i]) THEN Finite(DigitsValue(t)) ELSE NaN
    ELSE IF v.js = "null" THEN Finite(0)
    ELSE NaN

RECURSIVE NatToString(_)
NatToString(n) ==
    IF n < 10 THEN <<48 + n>> ELSE Append(NatToString(n \div 10), 48 + (n % 10))

\* String(v)
ToStringValue(v) ==
    IF v.js = "num" THEN NatToString(v.n)
    ELSE IF v.js = "str" THEN v.s
    ELSE IF v.js = "null" THEN <<110, 117, 108, 108>>
    ELSE <<117, 110, 100, 101, 102, 105, 110, 101, 100>>

\* row[Number(v)] || ''
CellOrEmpty(row, v) ==
    LET k == ToNumber(v)
    IN IF ~k.nan /\ k.n >= 0 /\ k.n < Len(row) THEN row[k.n + 1] ELSE <<>>

RECURSIVE Join(_, _)
\* Array.prototype.join
Join(parts, sep) ==
    IF parts = <<>> THEN <<>>
    ELSE IF Len(parts) = 1 THEN parts[1]
    ELSE parts[1] \o sep \o Join(Tail(parts), sep)

(***************************************************************************)
(* parseCSV (lines 30-51)                                                  *)
(***************************************************************************)
RECURSIVE parseCSVScan(_, _, _, _, _, _)
parseCSVScan(text, i, result, row, cell, inQuotes) ==
    IF i > Len(text) THEN [result |-> result, row |-> row, cell |-> cell]
    ELSE
        LET char == text[i]
            hasNext == i < Len(text)
            nextIs(c) == hasNext /\ text[i + 1] = c
        IN  IF inQuotes /\ char = chDQuote /\ nextIs(chDQuote) THEN
                parseCSVScan(text, i + 2, result, row, Append(cell, chDQuote), inQuotes)
            ELSE IF char = chDQuote THEN
                parseCSVScan(text, i + 1, result, row, cell, ~inQuotes)
            ELSE IF ~inQuotes /\ char = chComma THEN
                parseCSVScan(text, i + 1, result, Append(row, Trim(cell)), <<>>, inQuotes)
            ELSE IF ~inQuotes /\ (char = chLF \/ char = chCR) THEN
                LET step == IF char = chCR /\ nextIs(chLF) THEN 2 ELSE 1
                    row2 == Append(row, Trim(cell))
                    result2 == IF Len(row2) > 0 \/ cell # <<>>
                               THEN Append(result, row2) ELSE result
                IN  parseCSVScan(text, i + step, result2, <<>>, <<>>, inQuotes)
            ELSE
                parseCSVScan(text, i + 1, result, row, Append(cell, char), inQuotes)

\* The filter of line 50: rows with a cell that is not ''.
RowHasContent(r) == Len(r) > 0 /\ \E k \in 1..Len(r) : r[k] # <<>>

NoRowFilter(r) == TRUE

KeepRow(r) == RowHasContent(r)

parseCSV(text) ==
    IF text = <<>> THEN <<>>
    ELSE
        LET end == parseCSVScan(text, 1, <<>>, <<>>, <<>>, FALSE)
            result == IF end.cell # <<>> \/ Len(end.row) > 0
                      THEN Append(end.result, Append(end.row, Trim(end.cell)))
                      ELSE end.result
        IN  SelectSeq(result, KeepRow)

(***************************************************************************)
(* processSmartAnswer (lines 53-66)                                        *)
(***************************************************************************)
\* The replace of line 56 with a character class of full-width letters only.
NormalizeUnitLettersOnly(c) ==
    IF c \in 65313..65338 THEN c - FullWidthOffset ELSE c

\* rawKey.toUpperCase().replace(/[Ａ-Ｚ０-９]/g, s => fromCharCode(code - 0xFEE0))
NormalizeUnit(c) ==
    IF c \in 65313..65338 \/ c \in 65296..65305 THEN c - FullWidthOffset ELSE c

NormalizeKey(rawKey) ==
    LET up == ToUpperCase(rawKey) IN [i \in 1..Len(up) |-> NormalizeUnit(up[i])]

\* lines 58-60 with the digit taken as the position itself.
TargetIdxDigitNotShifted(key) ==
    IF Len(key) = 1 /\ key[1] \in 65..90 THEN key[1] - 65
    ELSE IF Len(key) = 1 /\ key[1] \in 49..57 THEN key[1] - 48
    ELSE -1

\* lines 58-60: -1 when the key is neither one letter A-Z nor one digit 1-9.
TargetIdx(key) ==
    IF Len(key) = 1 /\ key[1] \in 65..90 THEN key[1] - 65
    ELSE IF Len(key) = 1 /\ key[1] \in 49..57 THEN (key[1] - 48) - 1
    ELSE -1

RawKey(row, config) == Trim(CellOrEmpty(row, Prop(config, "sourceKeyIdx")))

\* Whether the call raises: the only property read that can fail is
\* config.optionIndices.length on a config without optionIndices (line 61).
processSmartAnswerThrows(row, config) ==
    /\ ~IsNullish(config)
    /\ Prop(config, "sourceKeyIdx") # Str(<<>>)
    /\ config.outputMode # "key"
    /\ TargetIdx(NormalizeKey(RawKey(row, config))) >= 0
    /\ IsNullish(Prop(config, "optionIndices"))

\* lines 61-65 without the test of line 63 for an unset slot.
ResolveOptionNoUnsetTest(row, config, rawKey, targetIdx) ==
    IF targetIdx >= 0 /\ targetIdx < Len(config.optionIndices.items)
    THEN CellOrEmpty(row, config.optionIndices.items[targetIdx + 1])
    ELSE rawKey

\* lines 61-65
ResolveOption(row, config, rawKey, targetIdx) ==
    IF targetIdx >= 0 /\ targetIdx < Len(config.optionIndices.items)
       /\ config.optionIndices.items[targetIdx + 1] # Str(<<>>)
    THEN CellOrEmpty(row, config.optionIndices.items[targetIdx + 1])
    ELSE rawKey

processSmartAnswer(row, config) ==
    IF IsNullish(config) \/ Prop(config, "sourceKeyIdx") = Str(<<>>) THEN <<>>
    ELSE
        LET rawKey == RawKey(row, config)
            key == NormalizeKey(rawKey)
        IN  IF config.outputMode = "key" THEN key
            ELSE ResolveOption(row, config, rawKey, TargetIdx(key))

(***************************************************************************)
(* generateCSV (lines 68-83)                                               *)
(***************************************************************************)
\* field.type, "undefined" where the entry has no such property.
FieldType(field) ==
    IF IsObject(field) /\ "type" \in DOMAIN field THEN field.type ELSE "undefined"

\* lines 73-77: the value of one descriptor on one row.
FieldValue(field, row, filename) ==
    IF FieldType(field) = "filename" THEN filename
    ELSE IF FieldType(field) = "constant" THEN ToStringValue(Prop(field, "sourceValue"))
    ELSE IF FieldType(field) = "csv_column" THEN CellOrEmpty(row, Prop(field, "sourceValue"))
    ELSE IF FieldType(field) = "smart_answer" THEN
        processSmartAnswer(row, Prop(field, "answerConfig"))
    ELSE <<>>

RECURSIVE DoubleQuotes(_)
\* val.replace(/"/g, '""')
DoubleQuotes(val) ==
    IF val = <<>> THEN <<>>
    ELSE IF Head(val) = chDQuote THEN <<chDQuote, chDQuote>> \o DoubleQuotes(Tail(val))
    ELSE <<Head(val)>> \o DoubleQuotes(Tail(val))

\* line 78 without the doubling of embedded quotes.
QuoteCellNoEscape(val) == <<chDQuote>> \o val \o <<chDQuote>>

\* line 78: `"${val.replace(/"/g, '""')}"`
QuoteCell(val) == <<chDQuote>> \o DoubleQuotes(val) \o <<chDQuote>>

\* lines 72-77 for one row: the evaluated strings, one per descriptor.
EvaluateRow(config, row, filename) ==
    [i \in 1..Len(config.items) |-> FieldValue(config.items[i], row, filename)]

\* sourceData without the slice: row 0 is treated as data too.
DataRowsWithHeaderRow(sourceData) == sourceData

\* sourceData.slice(1)
DataRows(sourceData) ==
    IF Len(sourceData) <= 1 THEN <<>> ELSE SubSeq(sourceData, 2, Len(sourceData))

\* Whether generateCSV raises a TypeError: config.map on a value that is no
\* array, f.headerName on a null element, or processSmartAnswer raising.
generateCSVThrows(config, sourceData, filename) ==
    \/ ~IsArray(config)
    \/ \E i \in 1..Len(config.items) : IsNullish(config.items[i])
    \/ \E i \in 1..Len(config.items), j \in 1..Len(DataRows(sourceData)) :
          /\ FieldType(config.items[i]) = "smart_answer"
          /\ processSmartAnswerThrows(DataRows(sourceData)[j],
                                      Prop(config.items[i], "answerConfig"))

generateCSV(config, sourceData, filename) ==
    LET headers == [i \in 1..Len(config.items) |->
                       IF IsObject(config.items[i]) THEN config.items[i].headerName
                       ELSE <<>>]
        data == DataRows(sourceData)
        outputRow(row) == [i \in 1..Len(config.items) |->
                              QuoteCell(FieldValue(config.items[i], row, filename))]
        csvRows == <<Join(headers, <<chComma>>)>>
                   \o [j \in 1..Len(data) |-> Join(outputRow(data[j]), <<chComma>>)]
    IN  Join(csvRows, <<chLF>>)

(***************************************************************************)
(* The component's initial state (lines 97-103)                            *)
(***************************************************************************)
InitUI ==
    /\ file = Null
    /\ fileBuffer = Null
    /\ encoding = "utf-8"
    /\ originalData = <<>>
    /\ exportConfig = Arr(<<>>)
    /\ isSuggesting = FALSE
    /\ draggedItemIndex = Null
    /\ fileReads = <<>>
    /\ importReads = <<>>
    /\ inFlight = <<>>
    /\ rendered = [fileBuffer |-> Null, encoding |-> "utf-8", originalData |-> <<>>,
                   exportConfig |-> Arr(<<>>), draggedItemIndex |-> Null]
    /\ bufferQueued = FALSE
    /\ effectPending = FALSE
    /\ dragSource = Null
    /\ steps = 0

(***************************************************************************)
(* JSON.parse (lines 140 and 192), on a document given as its sequence of  *)
(* lexical tokens: the punctuators, and literals carrying their value.     *)
(***************************************************************************)
LBracket == [t |-> "["]
RBracket == [t |-> "]"]
LBrace == [t |-> "{"]
RBrace == [t |-> "}"]
Comma == [t |-> ","]
Colon == [t |-> ":"]
Lit(v) == [t |-> "lit", v |-> v]

ParseFail == [ok |-> FALSE, val |-> Null, rest |-> <<>>]
ParseOk(v, rest) == [ok |-> TRUE, val |-> v, rest |-> rest]

RECURSIVE ParseValue(_), ParseArrayRest(_, _, _), ParseObjectRest(_, _, _)
ParseValue(toks) ==
    IF toks = <<>> THEN ParseFail
    ELSE IF Head(toks).t = "lit" THEN ParseOk(Head(toks).v, Tail(toks))
    ELSE IF Head(toks).t = "[" THEN ParseArrayRest(Tail(toks), <<>>, TRUE)
    ELSE IF Head(toks).t = "{" THEN ParseObjectRest(Tail(toks), <<>>, TRUE)
    ELSE ParseFail

\* After '[' (first) or after a ',' inside an array.
ParseArrayRest(toks, acc, first) ==
    IF toks = <<>> THEN ParseFail
    ELSE IF first /\ Head(toks).t = "]" THEN ParseOk(Arr(acc), Tail(toks))
    ELSE
        LET v == ParseValue(toks)
        IN  IF ~v.ok \/ v.rest = <<>> THEN ParseFail
            ELSE IF Head(v.rest).t = "," THEN
                ParseArrayRest(Tail(v.rest), Append(acc, v.val), FALSE)
            ELSE IF Head(v.rest).t = "]" THEN
                ParseOk(Arr(Append(acc, v.val)), Tail(v.rest))
            ELSE ParseFail

\* After '{' (first) or after a ',' inside an object: key ':' value.
ParseObjectRest(toks, acc, first) ==
    IF toks = <<>> THEN ParseFail
    ELSE IF first /\ Head(toks).t = "}" THEN ParseOk(acc, Tail(toks))
    ELSE IF Len(toks) < 3 \/ toks[1].t # "lit" \/ toks[2].t # ":" THEN ParseFail
    ELSE
        LET v == ParseValue(SubSeq(toks, 3, Len(toks)))
            obj == (toks[1].v :> v.val) @@ acc
        IN  IF ~v.ok \/ v.rest = <<>> THEN ParseFail
            ELSE IF Head(v.rest).t = "," THEN ParseObjectRest(Tail(v.rest), obj, FALSE)
            ELSE IF Head(v.rest).t = "}" THEN ParseOk(obj, Tail(v.rest))
            ELSE ParseFail

\* JSON.parse(text): ok is FALSE where it raises a SyntaxError.
JSONParse(toks) ==
    LET v == ParseValue(toks)
    IN  IF v.ok /\ v.rest = <<>> THEN v ELSE ParseFail

(***************************************************************************)
(* The ExamFactory component (lines 96-211 and the handlers in its JSX)    *)
(***************************************************************************)
MaxSteps == 5
MaxPendingImports == 1

\* The single source file the user can pick: q.csv, whose bytes are
\* K,T LF B,<A4><40> LF  (A4 40 is one Big5 character and no UTF-8 sequence).
SourceFiles ==
    { [name |-> <<113, 46, 99, 115, 118>>,
       content |-> <<75, 44, 84, 10, 66, 44, 164, 64, 10>>] }

\* new TextDecoder('utf-8').decode on bytes that are ASCII or stray
\* continuation bytes: each of the latter decodes to U+FFFD.
DecodeUtf8(bytes) == [i \in 1..Len(bytes) |-> IF bytes[i] < 128 THEN bytes[i] ELSE 65533]

RECURSIVE DecodeBig5(_)
\* new TextDecoder('big5').decode on ASCII bytes and the pair A4 40 (U+4E00).
DecodeBig5(bytes) ==
    IF bytes = <<>> THEN <<>>
    ELSE IF Head(bytes) < 128 THEN <<Head(bytes)>> \o DecodeBig5(Tail(bytes))
    ELSE IF Head(bytes) = 164 /\ Len(bytes) >= 2 /\ bytes[2] = 64 THEN
        <<19968>> \o DecodeBig5(Tail(Tail(bytes)))
    ELSE <<65533>> \o DecodeBig5(Tail(bytes))

\* line 110
Decode(enc, bytes) == IF enc = "big5" THEN DecodeBig5(bytes) ELSE DecodeUtf8(bytes)

\* line 105, in the last render
headers == IF Len(rendered.originalData) > 0 THEN rendered.originalData[1] ELSE <<>>

\* Whether rendering the component with the given list and grid raises (React
\* then unmounts it, and no handler runs any more): exportConfig.length and
\* .map on a value that is no array (lines 325-338), field.id on a null or
\* undefined entry (line 340), answerConfig.optionIndices[i] on a missing list
\* (line 431), or processSmartAnswer raising in the preview (line 494).
RenderThrowsOf(config, data) ==
    \/ ~IsArray(config)
    \/ \E i \in 1..Len(config.items) : IsNullish(config.items[i])
    \/ \E i \in 1..Len(config.items) :
          /\ FieldType(config.items[i]) = "smart_answer"
          /\ ~IsNullish(Prop(config.items[i], "answerConfig"))
          /\ IsNullish(Prop(config.items[i].answerConfig, "optionIndices"))
    \/ generateCSVThrows(config, data, <<>>)

\* The last render raised.
RenderThrows == RenderThrowsOf(rendered.exportConfig, rendered.originalData)

\* A handler can run: the component is still mounted (and the number of steps
\* taken is below the cap).
Mounted == pc = "ui" /\ ~RenderThrows /\ steps < MaxSteps

Step == steps' = steps + 1

\* The dragged card's element has left the page.
Detached == [js |-> "detached"]

\* Whether a render of the list and grid puts a card with the given key on
\* the page (key={field.id}, line 340): none when the render raises.
HasCard(config, data, key) ==
    /\ ~RenderThrowsOf(config, data)
    /\ \E m \in 1..Len(config.items) :
          /\ "id" \in DOMAIN config.items[m]
          /\ config.items[m].id = key

\* The dragged card after a render of the list and grid: its element stays
\* while a card of its key is rendered, and is gone for good otherwise.
DragSourceAfter(source, config, data) ==
    IF IsNullish(source) \/ source = Detached THEN source
    ELSE IF HasCard(config, data, source.key) THEN source
    ELSE Detached

\* A user edit makes every suggestion request in flight one that was issued
\* before an edit.
MarkEdited(requests) == [k \in 1..Len(requests) |-> [requests[k] EXCEPT !.edited = TRUE]]

RemoveAt(seq, k) == SubSeq(seq, 1, k - 1) \o SubSeq(seq, k + 1, Len(seq))

\* The useState cells with every queued update applied (lines 97-103), and
\* the suggestion requests in flight.
Queued ==
    [file |-> file, fileBuffer |-> fileBuffer, encoding |-> encoding,
     originalData |-> originalData, exportConfig |-> exportConfig,
     isSuggesting |-> isSuggesting, draggedItemIndex |-> draggedItemIndex,
     inFlight |-> inFlight]

\* What a render of the cells st gives its handlers and its effect to close over.
View(st) ==
    [fileBuffer |-> st.fileBuffer, encoding |-> st.encoding,
     originalData |-> st.originalData, exportConfig |-> st.exportConfig,
     draggedItemIndex |-> st.draggedItemIndex]

\* The cells take the values of st.
SetCells(st) ==
    /\ file' = st.file
    /\ fileBuffer' = st.fileBuffer
    /\ encoding' = st.encoding
    /\ originalData' = st.originalData
    /\ exportConfig' = st.exportConfig
    /\ isSuggesting' = st.isSuggesting
    /\ draggedItemIndex' = st.draggedItemIndex
    /\ inFlight' = st.inFlight

\* A render is due: a state update is queued that the page does not show.
RenderPending == bufferQueued \/ rendered # View(Queued)

\* The effect of lines 107-116 as created by the render view, with the call of
\* autoSuggest up to its await (lines 118-122): its updates are queued behind
\* those of st.
EffectOn(view, st) ==
    IF IsNullish(view.fileBuffer) THEN st
    ELSE
        LET parsed == parseCSV(Decode(view.encoding, view.fileBuffer.bytes))
        IN  IF Len(parsed) > 0 /\ Len(view.exportConfig.items) = 0
            THEN [st EXCEPT !.originalData = parsed,
                            !.isSuggesting = TRUE,
                            !.inFlight = Append(@, [edited |-> FALSE])]
            ELSE [st EXCEPT !.originalData = parsed]

\* The render React makes at the end of a discrete event (click, change,
\* dragstart, dragend) whose handler has left the cells st and the dragged
\* card source. An effect still pending from the render before is run first;
\* the render shows every queued update; when fileBuffer or encoding has
\* changed and the render does not raise, its effect runs before the event
\* ends, and what the effect sets is rendered later.
SyncRender(st, source) ==
    LET flushed == IF effectPending THEN EffectOn(rendered, st) ELSE st
        view == View(flushed)
        due == /\ bufferQueued \/ view.encoding # rendered.encoding
               /\ ~RenderThrowsOf(view.exportConfig, view.originalData)
    IN  /\ SetCells(IF due THEN EffectOn(view, flushed) ELSE flushed)
        /\ rendered' = view
        /\ bufferQueued' = FALSE
        /\ effectPending' = FALSE
        /\ dragSource' = DragSourceAfter(source, view.exportConfig, view.originalData)

\* The render React schedules after a FileReader or promise callback, a
\* dragenter handler or an effect has set state, once for all the updates
\* queued before it (an effect still pending is run before it). Until it
\* happens the page and its handlers are those of the render before. Its own
\* effect is run later.
Render ==
    /\ pc = "ui"
    /\ ~RenderThrows
    /\ ~effectPending
    /\ RenderPending
    /\ rendered' = View(Queued)
    /\ bufferQueued' = FALSE
    /\ effectPending' = (bufferQueued /\ ~RenderThrowsOf(exportConfig, originalData))
    /\ dragSource' = DragSourceAfter(dragSource, exportConfig, originalData)
    /\ UNCHANGED <<file, fileBuffer, encoding, originalData, exportConfig, isSuggesting,
                   draggedItemIndex, fileReads, importReads, inFlight, steps, pc, arg, ret>>

\* The effect of lines 107-116 of a scheduled render, run in a task of its own.
Effect ==
    /\ pc = "ui"
    /\ ~RenderThrows
    /\ effectPending
    /\ SetCells(EffectOn(rendered, Queued))
    /\ effectPending' = FALSE
    /\ UNCHANGED <<fileReads, importReads, rendered, bufferQueued, dragSource, steps,
                   pc, arg, ret>>

\* file input onChange (lines 250-253): shown while no file is set.
SelectFile(f) ==
    /\ Mounted
    /\ IsNullish(file)
    /\ fileReads' = Append(fileReads, f)
    /\ SyncRender([Queued EXCEPT !.file = f], dragSource)
    /\ Step
    /\ UNCHANGED <<importReads, pc, arg, ret>>

\* r.onload (line 252): setFileBuffer with a new ArrayBuffer, rendered later.
FileLoaded(k) ==
    /\ Mounted
    /\ k \in 1..Len(fileReads)
    /\ fileBuffer' = [bytes |-> fileReads[k].content]
    /\ fileReads' = RemoveAt(fileReads, k)
    /\ bufferQueued' = TRUE
    /\ Step
    /\ UNCHANGED <<file, encoding, originalData, exportConfig, isSuggesting, draggedItemIndex,
                   importReads, inFlight, rendered, effectPending, dragSource, pc, arg, ret>>

\* encoding buttons (line 228): shown while a file is set; the button of the
\* current encoding can be clicked as well.
SetEncoding(enc) ==
    /\ Mounted
    /\ ~IsNullish(file)
    /\ SyncRender([Queued EXCEPT !.encoding = enc], dragSource)
    /\ Step
    /\ UNCHANGED <<fileReads, importReads, pc, arg, ret>>

\* clear button (line 264): shown while a file is set.
ClearFile ==
    /\ Mounted
    /\ ~IsNullish(file)
    /\ SyncRender([Queued EXCEPT !.file = Null, !.originalData = <<>>,
                                 !.exportConfig = Arr(<<>>)], dragSource)
    /\ Step
    /\ UNCHANGED <<fileReads, importReads, pc, arg, ret>>

(***************************************************************************)
(* autoSuggest (lines 118-164)                                             *)
(***************************************************************************)
\* Header names of lines 142-150 and 162.
TextSourceFileName == <<20358, 28304, 27284, 21517>>
TextQuestionContent == <<38988, 30446, 20839, 23481>>
TextOption(d) == <<36984, 38917, 48 + d>>
TextCorrectAnswerText == <<27491, 30906, 31572, 26696, 25991, 23383>>
TextQuestion == <<38988, 30446>>

\* mapping.role ?? ''
RoleOrUnset(mapping, role) ==
    IF IsNullish(Prop(mapping, role)) THEN Str(<<>>) ELSE Prop(mapping, role)

\* lines 141-159
SuggestedFields(mapping) ==
    << [id |-> "f_name", headerName |-> TextSourceFileName, type |-> "filename",
        sourceValue |-> Str(<<>>)],
       [id |-> "f_q", headerName |-> TextQuestionContent, type |-> "csv_column",
        sourceValue |-> RoleOrUnset(mapping, "question")],
       [id |-> "f_o1", headerName |-> TextOption(1), type |-> "csv_column",
        sourceValue |-> RoleOrUnset(mapping, "option1")],
       [id |-> "f_o2", headerName |-> TextOption(2), type |-> "csv_column",
        sourceValue |-> RoleOrUnset(mapping, "option2")],
       [id |-> "f_o3", headerName |-> TextOption(3), type |-> "csv_column",
        sourceValue |-> RoleOrUnset(mapping, "option3")],
       [id |-> "f_o4", headerName |-> TextOption(4), type |-> "csv_column",
        sourceValue |-> RoleOrUnset(mapping, "option4")],
       [id |-> "f_ans", headerName |-> TextCorrectAnswerText, type |-> "smart_answer",
        sourceValue |-> Str(<<>>),
        answerConfig |->
            [sourceKeyIdx |-> RoleOrUnset(mapping, "answer"),
             outputMode |-> "content",
             optionIndices |-> Arr(<<RoleOrUnset(mapping, "option1"),
                                     RoleOrUnset(mapping, "option2"),
                                     RoleOrUnset(mapping, "option3"),
                                     RoleOrUnset(mapping, "option4")>>)]] >>

\* The fallback descriptor with its column left unset.
FallbackFieldsUnset ==
    << [id |-> "f_err", headerName |-> TextQuestion, type |-> "csv_column",
        sourceValue |-> Str(<<>>)] >>

\* line 162
FallbackFields ==
    << [id |-> "f_err", headerName |-> TextQuestion, type |-> "csv_column",
        sourceValue |-> Num(0)] >>

\* What generateContent can come back with: a rejection, or a response whose
\* text is one of these documents: not JSON; null; every role resolved; the
\* question and the answer resolved, option1 null, the other options absent.
Responses ==
    { [kind |-> "error", text |-> <<>>],
      [kind |-> "text", text |-> <<LBrace>>],
      [kind |-> "text", text |-> <<Lit(Null)>>],
      [kind |-> "text", text |->
          <<LBrace, Lit("question"), Colon, Lit(Num(0)), Comma,
            Lit("option1"), Colon, Lit(Num(1)), Comma,
            Lit("option2"), Colon, Lit(Num(2)), Comma,
            Lit("option3"), Colon, Lit(Num(3)), Comma,
            Lit("option4"), Colon, Lit(Num(4)), Comma,
            Lit("answer"), Colon, Lit(Num(5)), RBrace>>],
      [kind |-> "text", text |->
          <<LBrace, Lit("question"), Colon, Lit(Num(0)), Comma,
            Lit("option1"), Colon, Lit(Null), Comma,
            Lit("answer"), Colon, Lit(Num(1)), RBrace>>] }

\* lines 140-162: the configuration the try block or the catch block sets.
\* Reading a property of null (mapping.question) raises like a failed parse.
SuggestionResult(response) ==
    LET parsed == JSONParse(response.text)
    IN  IF response.kind = "error" \/ ~parsed.ok \/ IsNullish(parsed.val)
        THEN Arr(FallbackFields)
        ELSE Arr(SuggestedFields(parsed.val))

\* The continuation of autoSuggest after its await (lines 140-163), for the
\* k-th call in flight. Its updates are rendered later.
SuggestDone(k, response) ==
    /\ Mounted
    /\ k \in 1..Len(inFlight)
    /\ exportConfig' = SuggestionResult(response)
    /\ isSuggesting' = FALSE
    /\ inFlight' = RemoveAt(inFlight, k)
    /\ Step
    /\ UNCHANGED <<file, fileBuffer, encoding, originalData, draggedItemIndex, fileReads,
                   importReads, rendered, bufferQueued, effectPending, dragSource,
                   pc, arg, ret>>

(***************************************************************************)
(* addField, updateField, remove (lines 166-179, 366)                      *)
(***************************************************************************)
TextNewAnswer == <<27491, 30906, 31572, 26696>>
TextFileName == <<27284, 26696, 21517, 31281>>
TextRemark == <<20633, 35387, 20839, 23481>>
TextFixed == <<22266, 23450, 25991, 23383>>

\* Math.random().toString(36).substr(2, 9): any of these, not necessarily fresh.
RandomIds == {"r1", "r2"}

\* lines 167-173
NewField(id, type, value, label) ==
    IF type = "smart_answer"
    THEN [id |-> id, headerName |-> label, type |-> type, sourceValue |-> value,
          answerConfig |-> [sourceKeyIdx |-> Str(<<>>), outputMode |-> "content",
                            optionIndices |-> Arr(<<Str(<<>>), Str(<<>>), Str(<<>>),
                                                    Str(<<>>)>>)]]
    ELSE [id |-> id, headerName |-> label, type |-> type, sourceValue |-> value]

\* h || `第 ${i+1} 欄` (line 304)
ColumnLabel(i) ==
    IF headers[i + 1] # <<>> THEN headers[i + 1]
    ELSE <<31532, 32>> \o NatToString(i + 1) \o <<32, 27396>>

\* The buttons of lines 287-309: what each passes to addField.
AddButtons ==
    { [type |-> "smart_answer", value |-> Str(<<>>), label |-> TextNewAnswer],
      [type |-> "filename", value |-> Str(<<>>), label |-> TextFileName],
      [type |-> "constant", value |-> Str(TextFixed), label |-> TextRemark] }
    \cup { [type |-> "csv_column", value |-> Num(i), label |-> ColumnLabel(i)] :
             i \in 0..(Len(headers) - 1) }

\* addField (lines 166-175): the handler of the last render, which appends to
\* the list of that render.
AddField(button, id) ==
    /\ Mounted
    /\ SyncRender([Queued EXCEPT
                      !.exportConfig =
                          Arr(Append(rendered.exportConfig.items,
                                     NewField(id, button.type, button.value, button.label))),
                      !.inFlight = MarkEdited(@)],
                  dragSource)
    /\ Step
    /\ UNCHANGED <<fileReads, importReads, pc, arg, ret>>

\* { ...f, ...updates }
Merge(f, updates) == updates @@ f

\* What the user types into a text input.
TextTyped == <<120>>

\* The <option> values of the column selects (lines 385-386, 404-405,
\* 439-440): '' and one per column of the file.
OptionsPicked == {Str(<<>>)} \cup {Str(NatToString(i)) : i \in 0..(Len(headers) - 1)}

\* What a select bound to v shows: the option of that value, and the first
\* option, '', when there is none.
Displayed(v) == IF Str(ToStringValue(v)) \in OptionsPicked THEN Str(ToStringValue(v)) ELSE Str(<<>>)

\* The options of a select bound to v that raise a change event.
OptionsChanging(v) == OptionsPicked \ {Displayed(v)}

WithAnswerConfig(f, key, value) == [answerConfig |-> [f.answerConfig EXCEPT ![key] = value]]

\* The updates the controls rendered for descriptor f can pass to updateField
\* (lines 361, 384, 394, 403, 411, 412, 433-436). An input or a select fires
\* when its value changes; the two mode buttons fire on every click.
UpdatesFor(f) ==
    (IF f.headerName # TextTyped THEN {[headerName |-> TextTyped]} ELSE {})
    \cup (IF f.type = "csv_column"
          THEN {[sourceValue |-> v] : v \in OptionsChanging(f.sourceValue)} ELSE {})
    \cup (IF f.type = "constant" /\ ToStringValue(f.sourceValue) # TextTyped
          THEN {[sourceValue |-> Str(TextTyped)]} ELSE {})
    \cup (IF f.type = "smart_answer" /\ ~IsNullish(Prop(f, "answerConfig"))
          THEN {WithAnswerConfig(f, "sourceKeyIdx", v) :
                   v \in OptionsChanging(f.answerConfig.sourceKeyIdx)}
               \cup {WithAnswerConfig(f, "outputMode", m) : m \in {"key", "content"}}
               \cup UNION { { WithAnswerConfig(f, "optionIndices",
                                  Arr([f.answerConfig.optionIndices.items EXCEPT ![i] = v])) :
                                v \in OptionsChanging(f.answerConfig.optionIndices.items[i]) } :
                            i \in 1..4 }
          ELSE {})

\* updateField (lines 177-179), called from the controls of the i-th card of
\* the last render.
UpdateField(i, updates) ==
    /\ Mounted
    /\ i \in 1..Len(rendered.exportConfig.items)
    /\ updates \in UpdatesFor(rendered.exportConfig.items[i])
    /\ LET shown == rendered.exportConfig.items
       IN  SyncRender([Queued EXCEPT
                          !.exportConfig =
                              Arr([j \in 1..Len(shown) |->
                                      IF shown[j].id = shown[i].id
                                      THEN Merge(shown[j], updates)
                                      ELSE shown[j]]),
                          !.inFlight = MarkEdited(@)],
                      dragSource)
    /\ Step
    /\ UNCHANGED <<fileReads, importReads, pc, arg, ret>>

\* the trash button of the i-th card (line 366)
RemoveField(i) ==
    /\ Mounted
    /\ i \in 1..Len(rendered.exportConfig.items)
    /\ LET shown == rendered.exportConfig.items
       IN  SyncRender([Queued EXCEPT
                          !.exportConfig =
                              Arr(SelectSeq(shown, LAMBDA f : f.id # shown[i].id)),
                          !.inFlight = MarkEdited(@)],
                      dragSource)
    /\ Step
    /\ UNCHANGED <<fileReads, importReads, pc, arg, ret>>

(***************************************************************************)
(* importConfig (lines 186-197)                                            *)
(***************************************************************************)
DocField(id, type, sourceValue) ==
    <<LBrace, Lit("id"), Colon, Lit(id), Comma,
      Lit("headerName"), Colon, Lit(<<104>>), Comma,
      Lit("type"), Colon, Lit(type), Comma,
      Lit("sourceValue"), Colon, Lit(sourceValue)>>

DocAnswerConfig(withOptions) ==
    <<Comma, Lit("answerConfig"), Colon, LBrace,
      Lit("sourceKeyIdx"), Colon, Lit(Num(0)), Comma,
      Lit("outputMode"), Colon, Lit("content")>>
    \o (IF withOptions
        THEN <<Comma, Lit("optionIndices"), Colon, LBracket, Lit(Num(1)), Comma,
               Lit(Str(<<>>)), Comma, Lit(Str(<<>>)), Comma, Lit(Str(<<>>)), RBracket>>
        ELSE <<>>)
    \o <<RBrace>>

\* A configuration as exportCurrentConfig writes it: a csv_column, a constant
\* and a smart_answer descriptor.
DocWellFormed ==
    <<LBracket>> \o DocField("a", "csv_column", Num(1)) \o <<RBrace, Comma>>
    \o DocField("b", "constant", Str(<<34, 120>>)) \o <<RBrace, Comma>>
    \o DocField("c", "smart_answer", Str(<<>>)) \o DocAnswerConfig(TRUE)
    \o <<RBrace, RBracket>>

\* The documents the user can pick for import: cut short; null; a number; an
\* object; a list with a null entry; a list whose smart_answer descriptor has
\* an answerConfig without optionIndices; a list whose smart_answer descriptor
\* has no answerConfig; a well-formed configuration.
ImportDocs ==
    { <<LBracket, LBrace>>,
      <<Lit(Null)>>,
      <<Lit(Num(5))>>,
      <<LBrace, Lit("a"), Colon, Lit(Num(1)), RBrace>>,
      <<LBracket, Lit(Null), RBracket>>,
      <<LBracket>> \o DocField("c", "smart_answer", Str(<<>>)) \o DocAnswerConfig(FALSE)
          \o <<RBrace, RBracket>>,
      <<LBracket>> \o DocField("c", "smart_answer", Str(<<>>)) \o <<RBrace, RBracket>>,
      DocWellFormed }

\* importConfig up to reader.readAsText (lines 186-196), which sets no state;
\* the reads in flight at one time are capped.
ImportSelect(doc) ==
    /\ Mounted
    /\ Len(importReads) < MaxPendingImports
    /\ importReads' = Append(importReads, doc)
    /\ Step
    /\ UNCHANGED <<file, fileBuffer, encoding, originalData, exportConfig, isSuggesting,
                   draggedItemIndex, fileReads, inFlight, rendered, bufferQueued,
                   effectPending, dragSource, pc, arg, ret>>

\* reader.onload (lines 190-195) for the k-th read in flight. Its update is
\* rendered later.
ImportLoaded(k) ==
    /\ Mounted
    /\ k \in 1..Len(importReads)
    /\ LET imported == JSONParse(importReads[k])
       IN  IF imported.ok
           THEN /\ exportConfig' = imported.val
                /\ inFlight' = MarkEdited(inFlight)
           ELSE UNCHANGED <<exportConfig, inFlight>>
    /\ importReads' = RemoveAt(importReads, k)
    /\ Step
    /\ UNCHANGED <<file, fileBuffer, encoding, originalData, isSuggesting, draggedItemIndex,
                   fileReads, rendered, bufferQueued, effectPending, dragSource,
                   pc, arg, ret>>

(***************************************************************************)
(* Drag handlers (lines 200-210)                                           *)
(***************************************************************************)
\* onDragStart on the card at position index (0-based) of the last render
DragStart(index) ==
    /\ Mounted
    /\ IsNullish(dragSource)
    /\ index \in 0..(Len(rendered.exportConfig.items) - 1)
    /\ SyncRender([Queued EXCEPT !.draggedItemIndex = Num(index)],
                  [key |-> rendered.exportConfig.items[index + 1].id])
    /\ Step
    /\ UNCHANGED <<fileReads, importReads, pc, arg, ret>>

\* The item inserted one position further right.
InsertAfter(seq, at, item) ==
    IF at + 1 >= Len(seq) THEN Append(seq, item)
    ELSE SubSeq(seq, 1, at + 1) \o <<item>> \o SubSeq(seq, at + 2, Len(seq))

\* newConfig.splice(at, 0, item)
InsertAt(seq, at, item) ==
    IF at >= Len(seq) THEN Append(seq, item)
    ELSE SubSeq(seq, 1, at) \o <<item>> \o SubSeq(seq, at + 1, Len(seq))

\* onDragEnter on the card at position index of the last render (lines
\* 201-209): the handler tests the draggedItemIndex and moves within the
\* exportConfig of that render; what it sets is rendered later.
DragEnter(index) ==
    /\ Mounted
    /\ index \in 0..(Len(rendered.exportConfig.items) - 1)
    /\ ~IsNullish(rendered.draggedItemIndex)
    /\ rendered.draggedItemIndex # Num(index)
    /\ LET from == rendered.draggedItemIndex.n
           shown == rendered.exportConfig.items
           itemToMove == IF from < Len(shown) THEN shown[from + 1] ELSE Undefined
           removed == IF from < Len(shown) THEN RemoveAt(shown, from + 1) ELSE shown
       IN  exportConfig' = Arr(InsertAt(removed, index, itemToMove))
    /\ draggedItemIndex' = Num(index)
    /\ inFlight' = MarkEdited(inFlight)
    /\ Step
    /\ UNCHANGED <<file, fileBuffer, encoding, originalData, isSuggesting, fileReads,
                   importReads, rendered, bufferQueued, effectPending, dragSource,
                   pc, arg, ret>>

\* onDragEnd (line 210): a dragend that reaches a card of the page.
DragEnd ==
    /\ Mounted
    /\ Len(rendered.exportConfig.items) > 0
    /\ SyncRender([Queued EXCEPT !.draggedItemIndex = Null], Null)
    /\ Step
    /\ UNCHANGED <<fileReads, importReads, pc, arg, ret>>

\* The browser ends a drag whose card has left the page: dragend goes to the
\* removed element and onDragEnd (line 210) does not run.
DragEndUndelivered ==
    /\ pc = "ui"
    /\ dragSource = Detached
    /\ dragSource' = Null
    /\ UNCHANGED <<file, fileBuffer, encoding, originalData, exportConfig, isSuggesting,
                   draggedItemIndex, fileReads, importReads, inFlight, rendered,
                   bufferQueued, effectPending, steps, pc, arg, ret>>

Init ==
    /\ InitUI
    /\ pc = "ui"
    /\ arg = <<>>
    /\ ret = <<>>

\* The cards of the page (lines 338-340): those of the last render, none when
\* it raised.
Cards == IF RenderThrows THEN {} ELSE 1..Len(rendered.exportConfig.items)

Next ==
    \/ \E f \in SourceFiles : SelectFile(f)
    \/ \E k \in 1..Len(fileReads) : FileLoaded(k)
    \/ Render
    \/ Effect
    \/ \E enc \in {"utf-8", "big5"} : SetEncoding(enc)
    \/ ClearFile
    \/ \E k \in 1..Len(inFlight), response \in Responses : SuggestDone(k, response)
    \/ \E button \in AddButtons, id \in RandomIds : AddField(button, id)
    \/ \E i \in Cards : \E updates \in UpdatesFor(rendered.exportConfig.items[i]) : UpdateField(i, updates)
    \/ \E i \in Cards : RemoveField(i)
    \/ \E doc \in ImportDocs : ImportSelect(doc)
    \/ \E k \in 1..Len(importReads) : ImportLoaded(k)
    \/ \E i \in Cards : DragStart(i - 1)
    \/ \E i \in Cards : DragEnter(i - 1)
    \/ DragEnd
    \/ DragEndUndelivered

Spec == Init /\ [][Next]_vars

\* The drag handlers alone, started in the state the component is in after
\* q.csv was loaded, the suggestion came back with every role resolved and
\* the user removed descriptors from the end.
MaxDragLen == 4

AllRolesMapping ==
    [question |-> Num(0), option1 |-> Num(1), option2 |-> Num(2), option3 |-> Num(3),
     option4 |-> Num(4), answer |-> Num(5)]

InitDrag ==
    /\ \E f \in SourceFiles :
          /\ file = f
          /\ fileBuffer = [bytes |-> f.content]
          /\ originalData = parseCSV(Decode("utf-8", f.content))
    /\ encoding = "utf-8"
    /\ exportConfig \in { Arr(SubSeq(SuggestedFields(AllRolesMapping), 1, n)) :
                            n \in 1..MaxDragLen }
    /\ isSuggesting = FALSE
    /\ draggedItemIndex = Null
    /\ fileReads = <<>>
    /\ importReads = <<>>
    /\ inFlight = <<>>
    /\ rendered = View(Queued)
    /\ bufferQueued = FALSE
    /\ effectPending = FALSE
    /\ dragSource = Null
    /\ steps = 0
    /\ pc = "ui"
    /\ arg = <<>>
    /\ ret = <<>>

NextDrag ==
    \/ \E i \in Cards : DragStart(i - 1)
    \/ \E i \in Cards : DragEnter(i - 1)
    \/ DragEnd
    \/ Render

SpecDrag == InitDrag /\ [][NextDrag]_vars

\* All strings over an alphabet up to a length.
StringsUpTo(alphabet, n) == UNION {[1..k -> alphabet] : k \in 0..n}

(***************************************************************************)
(* parseCSV applied to every text over a small alphabet                    *)
(***************************************************************************)
MaxTextLen == 5

\* '"'  ','  LF  CR  ' '  'a'
ParseAlphabet == {chDQuote, chComma, chLF, chCR, 32, 97}

InitParse ==
    /\ InitUI
    /\ pc = "call"
    /\ arg \in StringsUpTo(ParseAlphabet, MaxTextLen)
    /\ ret = <<>>

CallParseCSV ==
    /\ pc = "call"
    /\ ret' = parseCSV(arg)
    /\ pc' = "done"
    /\ UNCHANGED <<arg, uiVars>>

NextParse == CallParseCSV

SpecParse == InitParse /\ [][NextParse]_vars

(***************************************************************************)
(* Quote one cell as the emitter does, then parse it                       *)
(***************************************************************************)
MaxCellLen == 4

InitRoundTrip ==
    /\ InitUI
    /\ pc = "call"
    /\ arg \in StringsUpTo(ParseAlphabet, MaxCellLen)
    /\ ret = <<>>

CallQuoteThenParse ==
    /\ pc = "call"
    /\ ret' = parseCSV(QuoteCell(arg))
    /\ pc' = "done"
    /\ UNCHANGED <<arg, uiVars>>

NextRoundTrip == CallQuoteThenParse

SpecRoundTrip == InitRoundTrip /\ [][NextRoundTrip]_vars

(***************************************************************************)
(* processSmartAnswer applied to rows and answer configurations            *)
(***************************************************************************)
MaxKeyLen == 2

\* 'A' 'B' 'b' 'E' '2' '4' '0' '!' ' ' full-width 'B', 'b', '2', and U+3000
KeyAlphabet == {65, 66, 98, 69, 50, 52, 48, 33, 32, 65314, 65346, 65298, 12288}

TextQ1 == <<81, 49>>
TextOptA == <<111, 112, 116, 32, 65>>
TextOptB == <<111, 112, 116, 32, 66>>
TextOptC == <<111, 112, 116, 32, 67>>
TextOptD == <<111, 112, 116, 32, 68>>

\* The row of the specification's example, and a short row whose first cell is the key.
SmartRows(keyCell) ==
    { <<TextQ1, TextOptA, TextOptB, TextOptC, TextOptD, keyCell>>,
      <<keyCell, TextOptA, TextOptB>> }

SmartKeyIdxs == {Str(<<>>), Num(5), Str(<<53>>), Num(0)}

SmartOptionIndices ==
    { <<Num(1), Num(2), Num(3), Num(4)>>,
      <<Str(<<49>>), Str(<<50>>), Str(<<51>>), Str(<<52>>)>>,
      <<Num(1), Num(2), Num(3), Str(<<>>)>>,
      <<Str(<<>>), Str(<<>>), Str(<<>>), Str(<<>>)>>,
      <<Num(1), Num(9), Num(3), Num(4)>> }

SmartConfigs ==
    { [sourceKeyIdx |-> k, outputMode |-> m, optionIndices |-> Arr(o)] :
        k \in SmartKeyIdxs, m \in {"key", "content"}, o \in SmartOptionIndices }

InitSmart ==
    /\ InitUI
    /\ pc = "call"
    /\ arg \in { [row |-> r, config |-> c] :
                   r \in UNION {SmartRows(k) : k \in StringsUpTo(KeyAlphabet, MaxKeyLen)},
                   c \in SmartConfigs }
    /\ ret = <<>>

CallProcessSmartAnswer ==
    /\ pc = "call"
    /\ ret' = processSmartAnswer(arg.row, arg.config)
    /\ pc' = "done"
    /\ UNCHANGED <<arg, uiVars>>

NextSmart == CallProcessSmartAnswer

SpecSmart == InitSmart /\ [][NextSmart]_vars

\* generateCSV on small configurations, grids and file names.
MaxEvalFields == 2

TextH1 == <<104, 49>>
TextH2 == <<104, 50>>
TextAB == <<97, 44, 98>>             \* a,b
TextCD == <<99, 34, 100>>            \* c"d

EvalGrids ==
    { <<>>,
      << <<TextH1, TextH2>> >>,
      << <<TextH1, TextH2>>, <<TextAB, TextCD>> >>,
      << <<TextH1, TextH2>>, <<TextAB, TextCD>>, << <<66>> >> >> }

EvalFields ==
    { [id |-> "c", headerName |-> IF v = Num(1) THEN TextH2 ELSE TextH1,
       type |-> "csv_column", sourceValue |-> v] :
        v \in {Str(<<>>), Num(0), Num(1), Str(<<49>>), Num(7)} }
    \cup { [id |-> "k", headerName |-> TextCD, type |-> "constant",
            sourceValue |-> Str(TextCD)],
           [id |-> "n", headerName |-> TextFileName, type |-> "filename",
            sourceValue |-> Str(<<>>)] }
    \cup { [id |-> "s", headerName |-> TextNewAnswer, type |-> "smart_answer",
            sourceValue |-> Str(<<>>),
            answerConfig |-> [sourceKeyIdx |-> Num(0), outputMode |-> m,
                              optionIndices |-> Arr(<<Str(<<>>), Num(1), Str(<<>>),
                                                      Str(<<>>)>>)]] :
             m \in {"key", "content"} }

EvalConfigs ==
    UNION { [1..n -> EvalFields] : n \in 0..MaxEvalFields }

InitEval ==
    /\ InitUI
    /\ pc = "call"
    /\ arg \in { [config |-> Arr(c), sourceData |-> g, filename |-> f] :
                   c \in EvalConfigs, g \in EvalGrids,
                   f \in {<<113, 46, 99, 115, 118>>} }
    /\ ret = <<>>

\* generateCSV (lines 68-83); rows keeps the evaluated strings of lines 72-77
\* next to the text that is returned.
CallGenerateCSV ==
    /\ pc = "call"
    /\ ~generateCSVThrows(arg.config, arg.sourceData, arg.filename)
    /\ ret' = [rows |-> [j \in 1..Len(DataRows(arg.sourceData)) |->
                            EvaluateRow(arg.config, DataRows(arg.sourceData)[j],
                                        arg.filename)],
               csv |-> generateCSV(arg.config, arg.sourceData, arg.filename)]
    /\ pc' = "done"
    /\ UNCHANGED <<arg, uiVars>>

NextEval == CallGenerateCSV

SpecEval == InitEval /\ [][NextEval]_vars

(***************************************************************************)
(* Properties of parseCSV                                                  *)
(***************************************************************************)
\* C9: parseCSV returns a grid for every text, and every row of the grid has
\* at least one cell that is not the empty string.
C9_ParsedRowsHaveContent ==
    pc = "done" =>
        \A j \in 1..Len(ret) : Len(ret[j]) >= 1 /\ \E k \in 1..Len(ret[j]) : ret[j][k] # <<>>

\* C9 witness: a text with a separators-only line, a content line and an
\* unbalanced quote has been parsed to the single content row.
C9_Witness ==
    /\ pc = "done"
    /\ arg = <<chComma, chLF, 97, chLF, chDQuote>>
    /\ ret = << << <<97>> >> >>

\* C10 as stated: quoting any string and parsing the result gives one row with
\* one cell equal to the string.
C10_RoundTripAnyString ==
    (pc = "done" /\ arg # <<>>) => ret = << <<arg>> >>

\* C10 amended: the round trip recovers s when s is not empty and neither
\* starts nor ends with white space; in general the cell comes back trimmed,
\* and a string that trims to '' gives the empty grid.
C10_RoundTripTrimmed ==
    pc = "done" =>
        /\ (arg # <<>> /\ ~IsWhiteSpace(arg[1]) /\ ~IsWhiteSpace(arg[Len(arg)]))
              => ret = << <<arg>> >>
        /\ ret = IF Trim(arg) = <<>> THEN <<>> ELSE << <<Trim(arg)>> >>

\* C10 witness: a string with a quote, a comma and a newline came back intact.
C10_Witness ==
    /\ pc = "done"
    /\ arg = <<chDQuote, chComma, chLF, 97>>
    /\ ret = << <<arg>> >>

(***************************************************************************)
(* Properties of processSmartAnswer                                        *)
(***************************************************************************)
\* The key cell the configuration points at ('' when there is no such cell), trimmed.
ClaimRawKey == Trim(CellOrEmpty(arg.row, arg.config.sourceKeyIdx))

\* Upper case, and full-width letters and digits to half width.
ClaimHalfWidth(c) ==
    IF c \in 97..122 THEN c - 32                        \* a-z
    ELSE IF c \in 65313..65338 THEN c - 65248           \* full-width A-Z
    ELSE IF c \in 65345..65370 THEN c - 65248 - 32      \* full-width a-z
    ELSE IF c \in 65296..65305 THEN c - 65248           \* full-width 0-9
    ELSE c

ClaimNormalizedKey == [i \in 1..Len(ClaimRawKey) |-> ClaimHalfWidth(ClaimRawKey[i])]

\* The option position a normalized key stands for, -1 when it stands for none.
ClaimPosition ==
    LET k == ClaimNormalizedKey
    IN  IF Len(k) # 1 THEN -1
        ELSE IF k[1] \in 65..90 THEN k[1] - 65
        ELSE IF k[1] \in 49..57 THEN k[1] - 49
        ELSE -1

ClaimOptions == arg.config.optionIndices.items

ClaimPositionInBounds == ClaimPosition >= 0 /\ ClaimPosition < Len(ClaimOptions)

ClaimSlot == ClaimOptions[ClaimPosition + 1]

ClaimSlotValidForRow ==
    /\ ~ToNumber(ClaimSlot).nan
    /\ ToNumber(ClaimSlot).n \in 0..(Len(arg.row) - 1)

ClaimContentCall ==
    /\ pc = "done"
    /\ arg.config.outputMode = "content"
    /\ arg.config.sourceKeyIdx # Str(<<>>)

\* C4: in content mode with the key column set, a key that decodes to a
\* position inside optionIndices whose slot is set and a valid index into the
\* row yields the text of that column; 'B', 'b', full-width 'B' and '2' all
\* yield the second option.
C4_ContentYieldsOptionText ==
    ClaimContentCall =>
        /\ (ClaimPositionInBounds /\ ClaimSlot # Str(<<>>) /\ ClaimSlotValidForRow)
              => ret = arg.row[ToNumber(ClaimSlot).n + 1]
        /\ ( /\ arg.row \in { <<TextQ1, TextOptA, TextOptB, TextOptC, TextOptD, k>> :
                                    k \in {<<66>>, <<98>>, <<65314>>, <<50>>} }
             /\ arg.config.sourceKeyIdx = Num(5)
             /\ ClaimOptions = <<Num(1), Num(2), Num(3), Num(4)>> )
              => ret = TextOptB

\* C4 witness: the full-width key 'B' has been resolved to the second option.
C4_Witness ==
    /\ ClaimContentCall
    /\ arg.row = <<TextQ1, TextOptA, TextOptB, TextOptC, TextOptD, <<65314>> >>
    /\ arg.config.sourceKeyIdx = Num(5)
    /\ ClaimOptions = <<Num(1), Num(2), Num(3), Num(4)>>
    /\ ret = TextOptB

\* C5: in content mode (key column set), an undecodable key, a position
\* outside optionIndices or an unset slot yields the raw key: the trimmed key
\* cell, neither upper-cased nor normalized, and not '' unless that cell is.
C5_FallbackIsRawKey ==
    ClaimContentCall =>
        ((~ClaimPositionInBounds \/ ClaimSlot = Str(<<>>)) =>
            /\ ret = ClaimRawKey
            /\ (ClaimRawKey # <<>> => ret # <<>>))

\* C5 witness: key '4' with the fourth slot unset came back as '4'.
C5_Witness ==
    /\ ClaimContentCall
    /\ arg.row = <<TextQ1, TextOptA, TextOptB, TextOptC, TextOptD, <<52>> >>
    /\ arg.config.sourceKeyIdx = Num(5)
    /\ ClaimOptions = <<Num(1), Num(2), Num(3), Str(<<>>)>>
    /\ ret = <<52>>

\* C6: in content mode, a decoded position in bounds whose slot is set but is
\* no valid index into the row yields the raw key, not the empty string.
C6_InvalidColumnYieldsRawKey ==
    ClaimContentCall =>
        ((ClaimPositionInBounds /\ ClaimSlot # Str(<<>>) /\ ~ClaimSlotValidForRow)
            => ret = ClaimRawKey)

\* C7: with the key column unset the result is '' in both modes; otherwise in
\* key mode it is the trimmed key cell upper-cased with full-width letters and
\* digits made half-width, whatever optionIndices holds.
C7_KeyModeYieldsNormalizedKey ==
    pc = "done" =>
        /\ arg.config.sourceKeyIdx = Str(<<>>) => ret = <<>>
        /\ (arg.config.sourceKeyIdx # Str(<<>>) /\ arg.config.outputMode = "key")
              => ret = ClaimNormalizedKey

\* C7 witness: in key mode the cell of full-width 'b' and full-width '2' came
\* back as 'B2'.
C7_Witness ==
    /\ pc = "done"
    /\ arg.config.outputMode = "key"
    /\ arg.config.sourceKeyIdx = Num(5)
    /\ arg.row = <<TextQ1, TextOptA, TextOptB, TextOptC, TextOptD, <<65346, 65298>> >>
    /\ ret = <<66, 50>>

(***************************************************************************)
(* Properties of generateCSV                                               *)
(***************************************************************************)
\* What a csv_column descriptor is to evaluate to on a row: the cell at
\* sourceValue when sourceValue is set and is a position of the row, else ''.
ClaimColumnValue(row, sourceValue) ==
    IF sourceValue = Str(<<>>) THEN <<>>
    ELSE IF ToNumber(sourceValue).nan THEN <<>>
    ELSE IF ToNumber(sourceValue).n < Len(row) THEN row[ToNumber(sourceValue).n + 1]
    ELSE <<>>

\* C3: every csv_column descriptor evaluates on every row to the cell at
\* sourceValue when that is a valid index into the row, and to '' when
\* sourceValue is unset ('') or out of range; unset never yields column 0.
C3_ColumnRefUnsetIsEmpty ==
    pc = "done" =>
        \A i \in 1..Len(arg.config.items), j \in 1..Len(ret.rows) :
            arg.config.items[i].type = "csv_column" =>
                ret.rows[j][i] = ClaimColumnValue(DataRows(arg.sourceData)[j],
                                                  arg.config.items[i].sourceValue)

RECURSIVE ClaimDoubled(_)
\* s with every double quote written twice.
ClaimDoubled(s) ==
    IF s = <<>> THEN <<>>
    ELSE (IF s[1] = 34 THEN <<34, 34>> ELSE <<s[1]>>) \o ClaimDoubled(Tail(s))

RECURSIVE ClaimJoined(_, _)
\* The parts written one after the other with sep between neighbours.
ClaimJoined(parts, sep) ==
    IF Len(parts) = 0 THEN <<>>
    ELSE IF Len(parts) = 1 THEN parts[1]
    ELSE parts[1] \o <<sep>> \o ClaimJoined(Tail(parts), sep)

\* One data record: each evaluated string in double quotes with its quotes
\* doubled, joined by ','.
ClaimRecord(values) ==
    ClaimJoined([i \in 1..Len(values) |-> <<34>> \o ClaimDoubled(values[i]) \o <<34>>], 44)

\* The number of data records: the rows of the grid after row 0.
ClaimRecordCount == IF Len(arg.sourceData) > 1 THEN Len(arg.sourceData) - 1 ELSE 0

\* C11: generateCSV returns the header names joined by ',' unquoted, then one
\* record per grid row after row 0, in grid order, each the evaluated strings
\* of that row quoted with inner quotes doubled and joined by ','; the lines
\* are joined by LF and grid row 0 is never emitted as data.
C11_EmittedDocument ==
    pc = "done" =>
        /\ Len(ret.rows) = ClaimRecordCount
        /\ \A j \in 1..Len(ret.rows) :
              ret.rows[j] = EvaluateRow(arg.config, arg.sourceData[j + 1], arg.filename)
        /\ ret.csv =
              ClaimJoined(
                  << ClaimJoined([i \in 1..Len(arg.config.items) |->
                                     arg.config.items[i].headerName], 44) >>
                  \o [j \in 1..ClaimRecordCount |-> ClaimRecord(ret.rows[j])],
                  10)

\* C11 witness: the grid [["h1","h2"],["a,b","c\"d"]] with csv_column
\* descriptors over columns 0 and 1 was emitted as h1,h2 LF "a,b","c""d".
C11_Witness ==
    /\ pc = "done"
    /\ arg.sourceData = << <<TextH1, TextH2>>, <<TextAB, TextCD>> >>
    /\ Len(arg.config.items) = 2
    /\ arg.config.items[1].sourceValue = Num(0)
    /\ arg.config.items[2].sourceValue = Num(1)
    /\ arg.config.items[1].type = "csv_column"
    /\ arg.config.items[2].type = "csv_column"
    /\ ret.csv = <<104, 49, 44, 104, 50, 10,
                   34, 97, 44, 98, 34, 44, 34, 99, 34, 34, 100, 34>>

(***************************************************************************)
(* Properties of the component                                             *)
(***************************************************************************)
\* C1: a suggestion response that arrives after a user edit made since its
\* request was issued leaves exportConfig as the user edited it.
C1_LateSuggestionNotApplied ==
    [][\A k \in 1..Len(inFlight), response \in Responses :
          (SuggestDone(k, response) /\ inFlight[k].edited)
              => exportConfig' = exportConfig]_vars

\* What a field descriptor is: an object with id, headerName, type and
\* sourceValue, and with an answerConfig holding optionIndices exactly when
\* its type is smart_answer.
ClaimIsFieldDescriptor(f) ==
    /\ IsObject(f)
    /\ {"id", "headerName", "type", "sourceValue"} \subseteq DOMAIN f
    /\ f.type \in {"csv_column", "constant", "filename", "smart_answer"}
    /\ ("answerConfig" \in DOMAIN f) <=> (f.type = "smart_answer")
    /\ f.type = "smart_answer" =>
          /\ IsObject(f.answerConfig)
          /\ IsArray(Prop(f.answerConfig, "optionIndices"))

\* A well-formed configuration document: valid JSON holding an ordered list
\* of field descriptors.
ClaimWellFormedDocument(doc) ==
    /\ JSONParse(doc).ok
    /\ IsArray(JSONParse(doc).val)
    /\ \A i \in 1..Len(JSONParse(doc).val.items) :
          ClaimIsFieldDescriptor(JSONParse(doc).val.items[i])

\* C2: importing a document that is no well-formed configuration leaves
\* exportConfig as it was before the import.
C2_MalformedImportRetainsConfig ==
    [][\A k \in 1..Len(importReads) :
          (ImportLoaded(k) /\ ~ClaimWellFormedDocument(importReads[k]))
              => exportConfig' = exportConfig]_vars

\* Source rows of several lengths, shorter than the indices a configuration
\* refers to included.
ClaimRows == { <<>>, << <<66>> >>, <<TextQ1, TextOptA, TextOptB, TextOptC, TextOptD, <<66>> >> }

\* C8: for every reachable configuration, every source row and every file
\* name, evaluating the row does not fail and yields one string per
\* descriptor, in configuration order.
C8_EvaluationTotal ==
    \A row \in ClaimRows, filename \in {<<>>, <<113, 46, 99, 115, 118>>} :
        /\ ~generateCSVThrows(exportConfig, <<row, row>>, filename)
        /\ Len(EvaluateRow(exportConfig, row, filename)) = Len(exportConfig.items)

\* The list without its entry at position k (1-based).
ClaimWithout(seq, k) == [m \in 1..(Len(seq) - 1) |-> IF m < k THEN seq[m] ELSE seq[m + 1]]

\* The list new is the list old with its entry at position i moved to
\* position j (both 1-based): same length, the same descriptors unchanged, the
\* others in their previous relative order.
ClaimMoved(old, new, i, j) ==
    /\ Len(new) = Len(old)
    /\ \A f \in {old[m] : m \in 1..Len(old)} :
          Cardinality({m \in 1..Len(new) : new[m] = f})
             = Cardinality({m \in 1..Len(old) : old[m] = f})
    /\ new[j] = old[i]
    /\ ClaimWithout(new, j) = ClaimWithout(old, i)
    /\ (i = 3 /\ j = 1) =>
          new = <<old[3], old[1], old[2]>> \o SubSeq(old, 4, Len(old))

\* C12: entering position j with a drag that is on valid position i yields a
\* configuration of the same length holding the same descriptors unchanged,
\* with the moved descriptor at position j and the others in their previous
\* relative order; for i = 2 and j = 0 the order is c2, c0, c1, c3, ... This
\* holds of the configuration and drag position of the page the handler was
\* rendered with, and of those of the state the step starts in, which differ
\* when an earlier reorder has not been rendered yet.
C12_ReorderMovesOneDescriptor ==
    [][\A j \in Cards :
          DragEnter(j - 1) =>
              /\ rendered.draggedItemIndex.n < Len(rendered.exportConfig.items) =>
                    /\ IsArray(exportConfig')
                    /\ ClaimMoved(rendered.exportConfig.items, exportConfig'.items,
                                  rendered.draggedItemIndex.n + 1, j)
              /\ (/\ IsArray(exportConfig)
                  /\ ~IsNullish(draggedItemIndex)
                  /\ draggedItemIndex.n < Len(exportConfig.items)) =>
                    /\ IsArray(exportConfig')
                    /\ ClaimMoved(exportConfig.items, exportConfig'.items,
                                  draggedItemIndex.n + 1, j)]_vars

\* C12 witness: from f_name, f_q, f_o1, f_o2 the drag started on position 2
\* has entered position 0 and the order is f_o1, f_name, f_q, f_o2.
C12_Witness ==
    /\ IsArray(exportConfig)
    /\ exportConfig.items = << SuggestedFields(AllRolesMapping)[3],
                               SuggestedFields(AllRolesMapping)[1],
                               SuggestedFields(AllRolesMapping)[2],
                               SuggestedFields(AllRolesMapping)[4] >>
    /\ draggedItemIndex = Num(0)
    /\ steps = 2

\* The call failed or its content cannot be parsed into a mapping of roles.
ClaimSuggestionFailed(response) ==
    \/ response.kind = "error"
    \/ ~JSONParse(response.text).ok
    \/ ~IsObject(JSONParse(response.text).val)

\* The index the response resolved a role to, '' when the role is null or absent.
ClaimRoleIndex(response, role) ==
    LET mapping == JSONParse(response.text).val
    IN  IF role \in DOMAIN mapping /\ mapping[role] # Null THEN mapping[role] ELSE Str(<<>>)

\* The descriptor with the given id in a list that has exactly one such.
ClaimFieldById(items, id) == items[CHOOSE m \in 1..Len(items) : items[m].id = id]

\* C13: when the suggestion call fails or returns unparseable content, the
\* configuration afterwards is exactly one csv_column descriptor on column 0,
\* isSuggesting is cleared and evaluation of the configuration does not fail;
\* when the call succeeds, every unresolved role is the unset index '' in the
\* suggested descriptors (and every resolved role its index).
C13_SuggestionOutcome ==
    [][\A k \in 1..Len(inFlight), response \in Responses :
          SuggestDone(k, response) =>
              IF ClaimSuggestionFailed(response)
              THEN /\ IsArray(exportConfig')
                   /\ Len(exportConfig'.items) = 1
                   /\ exportConfig'.items[1].type = "csv_column"
                   /\ exportConfig'.items[1].sourceValue = Num(0)
                   /\ "answerConfig" \notin DOMAIN exportConfig'.items[1]
                   /\ isSuggesting' = FALSE
                   /\ \A row \in ClaimRows :
                         /\ ~generateCSVThrows(exportConfig', <<row, row>>, <<>>)
                         /\ Len(EvaluateRow(exportConfig', row, <<>>)) = 1
              ELSE /\ IsArray(exportConfig')
                   /\ Len(exportConfig'.items) = 7
                   /\ ClaimFieldById(exportConfig'.items, "f_q").sourceValue
                         = ClaimRoleIndex(response, "question")
                   /\ \A n \in 1..4 :
                         LET role == <<"option1", "option2", "option3", "option4">>[n]
                             id == <<"f_o1", "f_o2", "f_o3", "f_o4">>[n]
                         IN  /\ ClaimFieldById(exportConfig'.items, id).sourceValue
                                   = ClaimRoleIndex(response, role)
                             /\ ClaimFieldById(exportConfig'.items, "f_ans")
                                   .answerConfig.optionIndices.items[n]
                                   = ClaimRoleIndex(response, role)
                   /\ ClaimFieldById(exportConfig'.items, "f_ans").answerConfig.sourceKeyIdx
                         = ClaimRoleIndex(response, "answer")]_vars

\* C13 witness: a response with option1 null and option2..option4 absent has
\* been applied: f_q is on column 0, f_o1..f_o4 are unset, and the request is
\* no longer in flight.
C13_Witness ==
    /\ IsArray(exportConfig)
    /\ Len(exportConfig.items) = 7
    /\ exportConfig.items[2].id = "f_q"
    /\ exportConfig.items[2].sourceValue = Num(0)
    /\ \A n \in 3..6 : exportConfig.items[n].sourceValue = Str(<<>>)
    /\ exportConfig.items[7].answerConfig.sourceKeyIdx = Num(1)
    /\ exportConfig.items[7].answerConfig.optionIndices
          = Arr(<<Str(<<>>), Str(<<>>), Str(<<>>), Str(<<>>)>>)
    /\ isSuggesting = FALSE
    /\ inFlight = <<>>

\* C14: in every reachable state each descriptor of exportConfig has an
\* answerConfig if and only if its type is smart_answer, and every
\* answerConfig has an optionIndices list of exactly 4 slots.
C14_AnswerConfigIffSmartAnswer ==
    IsArray(exportConfig) =>
        \A i \in 1..Len(exportConfig.items) :
            IsObject(exportConfig.items[i]) =>
                /\ ("answerConfig" \in DOMAIN exportConfig.items[i])
                      <=> (FieldType(exportConfig.items[i]) = "smart_answer")
                /\ "answerConfig" \in DOMAIN exportConfig.items[i] =>
                      /\ IsArray(Prop(exportConfig.items[i].answerConfig, "optionIndices"))
                      /\ Len(exportConfig.items[i].answerConfig.optionIndices.items) = 4

\* C15: in every reachable state isSuggesting is true if and only if at
\* least one suggestion request is in flight; the completion of one of two
\* pending requests does not clear the flag.
C15_FlagIffInFlight == isSuggesting <=> (Len(inFlight) > 0)

\* C16: whatever replaces or shrinks the configuration during a drag,
\* draggedItemIndex, when not null, is a position of exportConfig, and
\* onDragEnter neither changes the length of the list it reorders nor inserts
\* an entry that is not a field descriptor.
C16_DragIndexStaysValid ==
    [][/\ ~IsNullish(draggedItemIndex') =>
             /\ IsArray(exportConfig')
             /\ draggedItemIndex'.n < Len(exportConfig'.items)
       /\ \A i \in Cards :
             DragEnter(i - 1) =>
                 /\ Len(exportConfig'.items) = Len(rendered.exportConfig.items)
                 /\ \A m \in 1..Len(exportConfig'.items) :
                       IsObject(exportConfig'.items[m])]_vars

\* C17: while the file is cleared (file null, grid and configuration empty)
\* and the user has not selected a file, added a field or imported since,
\* neither a file read in flight nor a suggestion request in flight (issued
\* before the clear, no edit since) repopulates exportConfig or originalData.
C17_ClearedStaysEmpty ==
    [][(/\ IsNullish(file)
        /\ originalData = <<>>
        /\ exportConfig = Arr(<<>>)
        /\ \/ \E k \in 1..Len(fileReads) : FileLoaded(k)
           \/ Render
           \/ Effect
           \/ \E k \in 1..Len(inFlight), response \in Responses :
                 ~inFlight[k].edited /\ SuggestDone(k, response))
          => (exportConfig' = Arr(<<>>) /\ originalData' = <<>>)]_vars

====
